---- MODULE Spec2Model ----
(***************************************************************************)
(* Model of the extractive summarizer of 14_nlp_class.py: summarize()      *)
(* scores every sentence of a randomly chosen review by its average        *)
(* TF-IDF weight and reports the three lowest and three highest pairs.     *)
(*                                                                         *)
(* Text is a sequence of character codes (ASCII), a (score, sentence)      *)
(* tuple is <<score, sentence>>, a score is a reduced fraction.            *)
(* Python indices are kept 0-based: reviews[i] is reviews[i + 1] here.     *)
(***************************************************************************)
EXTENDS Integers, Sequences, FiniteSets, Bags

VARIABLES
    reviews,      \* the corpus, a list of raw texts (line 179)
    features,     \* the vocabulary, tfidf.get_feature_names() (line 184)
    dtm,          \* the document-term matrix (line 183)
    review_id,    \* the review chosen by the last call (line 192), -1 before
    sent_scores,  \* the (score, sentence) pairs of the last call (lines 196-211)
    lowest,       \* sorted(sent_scores)[:3] of the last call (line 215)
    highest,      \* sorted(sent_scores, reverse=True)[:3] of the last call (line 220)
    lookups,      \* the [row, column] places of dtm read by the last call (line 208)
    seen,         \* for each review, the outputs the calls for it have produced
    repeat,       \* the last call was for a review summarized before
    pc            \* "built" after line 184, "done" after a call of summarize

vars == <<reviews, features, dtm, review_id, sent_scores, lowest, highest,
          lookups, seen, repeat, pc>>

(* bounds of the inputs: documents in a corpus, largest weight in dtm *)
MaxDocs == 2
MaxWeight == 1

(* len(sentence) > 6 (line 200) and the slices [:3] (lines 215, 220) *)
MinSentenceLength == 6
TopN == 3

(* ------------------------------ text ----------------------------------- *)
Ch == [sp |-> 32, dot |-> 46, a |-> 97, b |-> 98, c |-> 99]

Min(x, y) == IF x < y THEN x ELSE y

Tail2(s) == SubSeq(s, 3, Len(s))

(* Python's str comparison: lexicographic by character code, a proper     *)
(* prefix is smaller.                                                      *)
RECURSIVE StrLess(_, _)
StrLess(s, t) ==
    IF t = <<>> THEN FALSE
    ELSE IF s = <<>> THEN TRUE
    ELSE IF Head(s) # Head(t) THEN Head(s) < Head(t)
    ELSE StrLess(Tail(s), Tail(t))

(* nltk.sent_tokenize: a sentence ends at a full stop that is followed by *)
(* a space or by the end of the text; the separating space is dropped.     *)
RECURSIVE SentSplit(_, _)
SentSplit(text, cur) ==
    IF text = <<>> THEN (IF cur = <<>> THEN <<>> ELSE <<cur>>)
    ELSE IF Head(text) = Ch.dot /\ Len(text) = 1
         THEN <<Append(cur, Ch.dot)>>
    ELSE IF Head(text) = Ch.dot /\ text[2] = Ch.sp
         THEN <<Append(cur, Ch.dot)>> \o SentSplit(Tail2(text), <<>>)
    ELSE SentSplit(Tail(text), Append(cur, Head(text)))

sent_tokenize(text) == SentSplit(text, <<>>)

(* nltk.word_tokenize: tokens are separated by spaces and a full stop is  *)
(* a token of its own.                                                     *)
RECURSIVE WordSplit(_, _)
WordSplit(text, cur) ==
    LET flush == IF cur = <<>> THEN <<>> ELSE <<cur>>
    IN  IF text = <<>> THEN flush
        ELSE IF Head(text) = Ch.sp THEN flush \o WordSplit(Tail(text), <<>>)
        ELSE IF Head(text) = Ch.dot
             THEN flush \o <<(<<Ch.dot>>)>> \o WordSplit(Tail(text), <<>>)
        ELSE WordSplit(Tail(text), Append(cur, Head(text)))

word_tokenize(sentence) == WordSplit(sentence, <<>>)

(* ----------------------------- inputs ---------------------------------- *)
S_ab    == <<97, 32, 98, 32, 97, 32, 98, 46>>           \* "a b a b."
S_ba    == <<98, 32, 97, 32, 98, 32, 97, 46>>           \* "b a b a."
S_cc    == <<99, 32, 99, 32, 99, 32, 99, 46>>           \* "c c c c."
S_six   == <<97, 32, 98, 32, 97, 46>>                   \* "a b a."
S_sev   == <<97, 32, 98, 32, 97, 98, 46>>               \* "a b ab."
S_aab   == <<97, 32, 97, 32, 97, 32, 98, 32, 99, 46>>   \* "a a a b c."
S_one   == <<97, 32, 99, 99, 99, 99, 99, 46>>           \* "a ccccc."
S_short == <<98, 46>>                                   \* "b."

RECURSIVE Join(_)
Join(ss) ==
    IF ss = <<>> THEN <<>>
    ELSE IF Len(ss) = 1 THEN ss[1]
    ELSE ss[1] \o <<Ch.sp>> \o Join(Tail(ss))

(* the documents the corpus is drawn from: a corpus is a run of up to     *)
(* MaxDocs consecutive documents of this list, starting anywhere.          *)
DocList ==
    << Join(<<S_ba, S_cc, S_ab, S_aab, S_one>>),
       Join(<<S_six, S_short>>),
       Join(<<S_ba, S_ab>>),
       Join(<<S_ab, S_six, S_ab, S_sev, S_ba>>),
       Join(<<>>),
       Join(<<S_one, S_sev, S_cc>>),
       Join(<<S_ab>>),
       Join(<<S_cc, S_short, S_aab, S_ba, S_ab, S_cc>>) >>

DocPool == { DocList[i] : i \in 1..Len(DocList) }

Corpus(start, n) ==
    [i \in 1..n |-> DocList[((start + i - 2) % Len(DocList)) + 1]]

Corpora == { Corpus(start, n) : start \in 1..Len(DocList), n \in 1..MaxDocs }

FeatureLists == { << <<97>>, <<98>> >> }

(* the tokenizers are pure: their results on the inputs are tabulated once *)
SentencesOf == [text \in DocPool |-> sent_tokenize(text)]

SentencePool == UNION { {SentencesOf[text][i] : i \in 1..Len(SentencesOf[text])} : text \in DocPool }

TokensOf == [sentence \in SentencePool |-> word_tokenize(sentence)]

Weights == 0..MaxWeight

(* ----------------------------- scores ---------------------------------- *)
RECURSIVE GCD(_, _)
GCD(x, y) == IF y = 0 THEN x ELSE GCD(y, x % y)

(* score / float(n): the quotient as a value; equal quotients are equal.   *)
Div(n, d) == LET g == GCD(n, d) IN [num |-> n \div g, den |-> d \div g]

ScoreLess(x, y) == x.num * y.den < y.num * x.den

(* ---------------------------- summarize -------------------------------- *)
RandInt(low, high) == low..(high - 1)

InFeatures(token) == \E i \in 1..Len(features) : features[i] = token

FeatureIndex(token) ==
    (CHOOSE i \in 1..Len(features) :
        /\ features[i] = token
        /\ \A j \in 1..(i - 1) : features[j] # token) - 1

(* the row of the first review, whatever review was chosen *)
Row_first(rid) == 0

Row(rid) == rid

Weight(row, col) == dtm[row + 1][col + 1]

(* token_count incremented for every token, found in the vocabulary or not *)
TokenCountStep_always(token_count, found) == token_count + 1

TokenCountStep(token_count, found) ==
    IF found THEN token_count + 1 ELSE token_count

(* the token loop: score, token_count and the lookups made so far *)
RECURSIVE ScoreTokens(_, _, _, _, _)
ScoreTokens(tokens, rid, score, token_count, used) ==
    IF tokens = <<>>
    THEN [score |-> score, token_count |-> token_count, used |-> used]
    ELSE IF InFeatures(Head(tokens))
    THEN ScoreTokens(Tail(tokens), rid,
             score + Weight(Row(rid), FeatureIndex(Head(tokens))),
             TokenCountStep(token_count, TRUE),
             used \cup {<<Row(rid), FeatureIndex(Head(tokens))>>})
    ELSE ScoreTokens(Tail(tokens), rid,
             score, TokenCountStep(token_count, FALSE), used)

FinalScore(score, token_count) == Div(score, token_count + 1)

(* a sentence of exactly the minimum length is kept *)
Retained_inclusive(sentence) == Len(sentence) >= MinSentenceLength

Retained(sentence) == Len(sentence) > MinSentenceLength

(* the scores of the previous call are kept *)
SentScoresInit_carry(prev) == prev

(* the last score of the previous call is kept *)
SentScoresInit_keepLast(prev) ==
    IF prev = <<>> THEN <<>> ELSE <<prev[Len(prev)]>>

SentScoresInit(prev) == <<>>

(* the sentence loop: sent_scores and the lookups made so far *)
RECURSIVE ScoreSentences(_, _, _, _)
ScoreSentences(sentences, rid, scores, used) ==
    IF sentences = <<>> THEN [scores |-> scores, used |-> used]
    ELSE IF Retained(Head(sentences))
    THEN \* score = 0, token_count = 0, then the token loop
         LET r == CHOOSE x \in {ScoreTokens(TokensOf[Head(sentences)], rid, 0, 0, {})} : TRUE
         IN  ScoreSentences(Tail(sentences), rid,
                 Append(scores, <<FinalScore(r.score, r.token_count), Head(sentences)>>),
                 used \cup r.used)
    ELSE ScoreSentences(Tail(sentences), rid, scores, used)

(* the pairs compared by score alone *)
TupleLess_scoreOnly(p, q) == ScoreLess(p[1], q[1])

(* tuple comparison of (score, sentence) pairs *)
TupleLess(p, q) ==
    \/ ScoreLess(p[1], q[1])
    \/ p[1] = q[1] /\ StrLess(p[2], q[2])

RECURSIVE InsertAsc(_, _)
InsertAsc(x, s) ==
    IF s = <<>> THEN <<x>>
    ELSE IF TupleLess(x, Head(s)) THEN <<x>> \o s
    ELSE <<Head(s)>> \o InsertAsc(x, Tail(s))

RECURSIVE InsertDesc(_, _)
InsertDesc(x, s) ==
    IF s = <<>> THEN <<x>>
    ELSE IF TupleLess(Head(s), x) THEN <<x>> \o s
    ELSE <<Head(s)>> \o InsertDesc(x, Tail(s))

RECURSIVE sorted(_)
sorted(s) ==
    IF s = <<>> THEN <<>>
    ELSE InsertAsc(s[Len(s)], sorted(SubSeq(s, 1, Len(s) - 1)))

(* reverse=True forgotten *)
sorted_reverse_ascending(s) == sorted(s)

RECURSIVE sorted_reverse(_)
sorted_reverse(s) ==
    IF s = <<>> THEN <<>>
    ELSE InsertDesc(s[Len(s)], sorted_reverse(SubSeq(s, 1, Len(s) - 1)))

(* the slice one short *)
FirstN_short(s) == SubSeq(s, 1, Min(TopN - 1, Len(s)))

FirstN(s) == SubSeq(s, 1, Min(TopN, Len(s)))

Init ==
    /\ reviews \in Corpora
    /\ features \in FeatureLists
    /\ dtm \in [1..Len(reviews) -> [1..Len(features) -> Weights]]
    /\ review_id = -1
    /\ sent_scores = <<>>
    /\ lowest = <<>>
    /\ highest = <<>>
    /\ lookups = {}
    /\ seen = [d \in 1..Len(reviews) |-> {}]
    /\ repeat = FALSE
    /\ pc = "built"

Summarize ==
    \E rid \in RandInt(0, Len(reviews)) :
        LET review_text == reviews[rid + 1]
        IN  \E r \in {ScoreSentences(SentencesOf[review_text], rid,
                                     SentScoresInit(sent_scores), {})} :
                /\ review_id' = rid
                /\ sent_scores' = r.scores
                /\ lookups' = r.used
                /\ lowest' = FirstN(sorted(sent_scores'))
                /\ highest' = FirstN(sorted_reverse(sent_scores'))
                /\ seen' = [seen EXCEPT ![rid + 1] =
                               @ \cup {[low |-> lowest', high |-> highest']}]
                /\ repeat' = (seen[rid + 1] # {})
                /\ pc' = "done"
                /\ UNCHANGED <<reviews, features, dtm>>

Next == Summarize

Spec == Init /\ [][Next]_vars


(* ======================= properties of summarize ======================= *)
Done == pc = "done"

Range(s) == { s[i] : i \in DOMAIN s }

SeqBag(s) == [x \in Range(s) |-> Cardinality({ i \in DOMAIN s : s[i] = x })]

RECURSIVE SumOver(_, _)
SumOver(S, f) ==
    IF S = {} THEN 0
    ELSE LET x == CHOOSE y \in S : TRUE IN f[x] + SumOver(S \ {x}, f)

(* the sentences of the selected review, and those long enough to be scored *)
Sents == SentencesOf[reviews[review_id + 1]]
IsLong(s) == Len(s) > MinSentenceLength
Qualifying == SelectSeq(Sents, IsLong)

Vocabulary == Range(features)
ColumnOf(term) == CHOOSE col \in 0..(Len(features) - 1) : features[col + 1] = term

(* the in-vocabulary token occurrences of a sentence and the sum of their  *)
(* weights in the row of the selected review                               *)
VocabOccurrences(s) == { i \in DOMAIN TokensOf[s] : TokensOf[s][i] \in Vocabulary }
WeightSum(s) ==
    SumOver(VocabOccurrences(s),
            [i \in VocabOccurrences(s) |->
                dtm[review_id + 1][ColumnOf(TokensOf[s][i]) + 1]])

(* the pairs that a reported list leaves out *)
LeftOut(list) == BagToSet(SeqBag(sent_scores) (-) SeqBag(list))

(* C1: every retained sentence is recorded with the score S / (k + 1), S  *)
(* the sum of the weights [selected row, term column] over the sentence's  *)
(* in-vocabulary token occurrences and k their number; tokens outside the  *)
(* vocabulary count for nothing, a sentence without vocabulary token       *)
(* scores 0.                                                               *)
C1_ScoreIsAverage ==
    Done =>
        /\ Len(sent_scores) = Len(Qualifying)
        /\ \A i \in DOMAIN sent_scores :
              LET score == sent_scores[i][1]
                  s     == Qualifying[i]
                  k     == Cardinality(VocabOccurrences(s))
              IN  /\ sent_scores[i][2] = s
                  /\ score.den > 0
                  /\ score.num * (k + 1) = WeightSum(s) * score.den
                  /\ (k = 0 => score.num = 0)

C1_Witness ==
    /\ Done
    /\ \E i \in DOMAIN sent_scores :
          LET s == sent_scores[i][2]
              k == Cardinality(VocabOccurrences(s))
          IN  k > 1 /\ k < Len(TokensOf[s]) - 1 /\ WeightSum(s) > 0
    /\ \E i \in DOMAIN sent_scores :
          /\ VocabOccurrences(sent_scores[i][2]) = {}
          /\ sent_scores[i][1].num = 0

(* C2: the lowest list is ascending by score, the highest list descending, *)
(* and no pair left out of a list beats a pair of that list.               *)
C2_RankedExtremes ==
    Done =>
        /\ \A i, j \in DOMAIN lowest :
              i < j => ~ScoreLess(lowest[j][1], lowest[i][1])
        /\ \A i, j \in DOMAIN highest :
              i < j => ~ScoreLess(highest[i][1], highest[j][1])
        /\ \A p \in LeftOut(lowest) : \A i \in DOMAIN lowest :
              ~ScoreLess(p[1], lowest[i][1])
        /\ \A p \in LeftOut(highest) : \A i \in DOMAIN highest :
              ~ScoreLess(highest[i][1], p[1])

C2_Witness ==
    /\ Done
    /\ Len(sent_scores) > TopN
    /\ ScoreLess(lowest[1][1], lowest[TopN][1])
    /\ ScoreLess(highest[TopN][1], highest[1][1])
    /\ \E p \in LeftOut(lowest) : ScoreLess(lowest[TopN][1], p[1])
    /\ \E p \in LeftOut(highest) : ScoreLess(p[1], highest[TopN][1])

(* the pairs ordered by score alone, equal scores in their original order *)
RECURSIVE StableInsert(_, _, _)
StableInsert(x, s, descending) ==
    IF s = <<>> THEN <<x>>
    ELSE IF (IF descending THEN ScoreLess(Head(s)[1], x[1])
                           ELSE ScoreLess(x[1], Head(s)[1]))
         THEN <<x>> \o s
    ELSE <<Head(s)>> \o StableInsert(x, Tail(s), descending)

RECURSIVE StableByScore(_, _)
StableByScore(s, descending) ==
    IF s = <<>> THEN <<>>
    ELSE StableInsert(s[Len(s)],
                      StableByScore(SubSeq(s, 1, Len(s) - 1), descending),
                      descending)

Take(s, n) == SubSeq(s, 1, IF n < Len(s) THEN n ELSE Len(s))

(* C3 as stated: sentences of equal score are listed, and cut at N, in    *)
(* their original order in the document.                                   *)
C3_TiesInDocumentOrder ==
    Done =>
        /\ lowest = Take(StableByScore(sent_scores, FALSE), TopN)
        /\ highest = Take(StableByScore(sent_scores, TRUE), TopN)

(* C3 amended: sentences of equal score are ordered by their text, the    *)
(* smaller text first in the lowest list and the larger text first in the  *)
(* highest list, and the text also decides which of them make the cut.     *)
C3_TiesInTextOrder ==
    Done =>
        /\ \A i, j \in DOMAIN lowest :
              (i < j /\ lowest[i][1] = lowest[j][1])
                  => ~StrLess(lowest[j][2], lowest[i][2])
        /\ \A i, j \in DOMAIN highest :
              (i < j /\ highest[i][1] = highest[j][1])
                  => ~StrLess(highest[i][2], highest[j][2])
        /\ \A p \in LeftOut(lowest) : \A i \in DOMAIN lowest :
              p[1] = lowest[i][1] => ~StrLess(p[2], lowest[i][2])
        /\ \A p \in LeftOut(highest) : \A i \in DOMAIN highest :
              p[1] = highest[i][1] => ~StrLess(highest[i][2], p[2])

C3_Witness ==
    /\ Done
    /\ \E i, j \in DOMAIN sent_scores :
          /\ i < j
          /\ sent_scores[i][1] = sent_scores[j][1]
          /\ StrLess(sent_scores[j][2], sent_scores[i][2])
          /\ \E a, b \in DOMAIN lowest :
                a < b /\ lowest[a] = sent_scores[j] /\ lowest[b] = sent_scores[i]
    /\ \E p \in LeftOut(lowest) : p[1] = lowest[TopN][1]

(* C4: no sentence of at most MinSentenceLength characters is in a list,   *)
(* and the scored collection holds one pair for each longer sentence of    *)
(* the document, in order.                                                 *)
C4_Threshold ==
    Done =>
        /\ \A i \in DOMAIN lowest : Len(lowest[i][2]) > MinSentenceLength
        /\ \A i \in DOMAIN highest : Len(highest[i][2]) > MinSentenceLength
        /\ [i \in DOMAIN sent_scores |-> sent_scores[i][2]] = Qualifying

C4_Witness ==
    /\ Done
    /\ \E i \in DOMAIN Sents : Len(Sents[i]) = MinSentenceLength
    /\ \E i \in DOMAIN Sents : Len(Sents[i]) = MinSentenceLength + 1
    /\ \E i \in DOMAIN lowest : Len(lowest[i][2]) = MinSentenceLength + 1

(* C5: with q qualifying sentences each list holds min(N, q) pairs; with   *)
(* q < N both lists hold every qualifying sentence, with q = 1 the same    *)
(* single sentence, with q = 0 nothing, and the call completes.            *)
C5_ListSizes ==
    Done =>
        LET q == Len(Qualifying)
            TextBag(list) == SeqBag([i \in DOMAIN list |-> list[i][2]])
        IN  /\ Len(lowest) = (IF q < TopN THEN q ELSE TopN)
            /\ Len(highest) = (IF q < TopN THEN q ELSE TopN)
            /\ q < TopN => /\ TextBag(lowest) = SeqBag(Qualifying)
                           /\ TextBag(highest) = SeqBag(Qualifying)
            /\ q = 1 => /\ lowest = highest
                        /\ lowest[1][2] = Qualifying[1]
            /\ q = 0 => lowest = <<>> /\ highest = <<>>

C5_Witness ==
    /\ Done
    /\ Len(Qualifying) = 2
    /\ Len(lowest) = 2
    /\ \E d \in DOMAIN reviews :
          /\ seen[d] # {}
          /\ Len(SelectSeq(SentencesOf[reviews[d]], IsLong)) = 0
          /\ Len(SentencesOf[reviews[d]]) > 0

(* C6: all the calls made for one document produced the same two lists.    *)
C6_Deterministic ==
    \A d \in DOMAIN seen : Cardinality(seen[d]) <= 1

C6_Witness ==
    /\ Done
    /\ repeat
    /\ Len(lowest) > 1
    /\ \E d \in DOMAIN seen : d # review_id + 1 /\ seen[d] # {}

(* C9: every lookup of a call is at the row of the selected document, a    *)
(* row of the matrix, and at the column of a vocabulary term that is a     *)
(* token of the document, a column of the matrix.                          *)
C9_LookupsInRowAndVocabulary ==
    Done =>
        /\ review_id \in 0..(Len(reviews) - 1)
        /\ \A l \in lookups :
              /\ l[1] = review_id
              /\ l[1] + 1 \in DOMAIN dtm
              /\ l[2] \in 0..(Len(features) - 1)
              /\ l[2] + 1 \in DOMAIN dtm[l[1] + 1]
              /\ \E i \in DOMAIN Qualifying :
                    features[l[2] + 1] \in Range(TokensOf[Qualifying[i]])

C9_Witness ==
    /\ Done
    /\ review_id > 0
    /\ Cardinality(lookups) > 1
    /\ dtm[1] # dtm[review_id + 1]

(* the scores held after a call are those of the selected document alone *)
NoCarry ==
    Done =>
        /\ Len(sent_scores) <= Len(Sents)
        /\ \A i \in DOMAIN sent_scores : sent_scores[i][2] \in Range(Sents)
        /\ \A d \in DOMAIN seen : Cardinality(seen[d]) <= 1

(* C10: a call leaves the corpus, the vocabulary and the matrix as built,  *)
(* and what it produces for a document is the same after any other calls.  *)
C10_ReadOnlyAndIndependent ==
    [][ /\ reviews' = reviews
        /\ features' = features
        /\ dtm' = dtm
        /\ NoCarry' ]_vars

C10_Witness ==
    /\ Done
    /\ sent_scores # <<>>
    /\ \E d \in DOMAIN seen :
          /\ d # review_id + 1
          /\ \E o \in seen[d] : o.low # <<>>
          /\ reviews[d] # reviews[review_id + 1]

====
